---- MODULE Spec2Model ----
(***************************************************************************)
(* Dual-store shopping cart of labora-backend: the Redis cart hashes and   *)
(* the dirtyCarts set, the PostgreSQL carts/cart_items/orders/order_items  *)
(* tables, the /cart request handlers (src/src/routes/cart.ts) and the     *)
(* hourly cart sync job (src/src/jobs/cartSync.ts).                         *)
(*                                                                         *)
(* Granularity: Node runs the code between two awaits atomically, so one   *)
(* action is one awaited store operation together with the synchronous     *)
(* code that follows it up to the next await.  A PostgreSQL transaction    *)
(* (BEGIN .. COMMIT) is one action: its writes are invisible to every      *)
(* other connection until COMMIT and row locks serialise it against the    *)
(* single-statement DELETEs of the handlers.                               *)
(*                                                                         *)
(* Two steps of a handler touch no store: the arrival of the request and   *)
(* the delivery of its response.  They are taken back to back with the     *)
(* handler's first store call and right after its last one (Turn): only    *)
(* the moments of the store calls order a handler against the others.      *)
(* The same holds for the last line of a sync run, which only logs.        *)
(***************************************************************************)
EXTENDS Integers, FiniteSets, Sequences, Bags, TLC

\* ---------------------------------------------------------------- bounds
Users    == {"u1", "u2"}
Products == {"A", "B"}
MaxQty      == 1   \* largest quantity a request carries / a cart field reaches
MaxRequests == 3   \* requests issued in one behaviour
MaxRuns     == 2   \* cron ticks in one behaviour
MaxCatalogChanges == 1   \* catalog edits in one behaviour
Slots  == {1, 2}         \* request handlers in flight at once
RunIds == {1, 2}         \* sync-job callbacks in flight at once

\* ------------------------------------------------------ program constants
CART_TTL == 60 * 60 * 24
NoExpiry == 0 - 1        \* Redis TTL of a key without expiry (and of no key)

VARIABLES
    cache,        \* Redis: user -> hash  cart:<user>  (field -> raw string)
    ttl,          \* Redis: user -> expiry of cart:<user>
    dirtyCarts,   \* Redis: the set dirtyCarts
    carts,        \* PostgreSQL: the carts rows, as the bag of their user_id
    cart_items,   \* PostgreSQL: user -> cart_items rows of that user's carts
    orders,       \* PostgreSQL: committed orders rows
    order_items,  \* PostgreSQL: committed order_items rows
    orderSeq,     \* PostgreSQL: last value of the orders id sequence
    products,     \* PostgreSQL: the catalog, product -> price
    req,          \* slot -> request handler in flight (locals and position)
    run,          \* run id -> cron callback in flight (locals and position)
    nreq, nrun, ncat   \* requests / cron ticks / catalog edits still to come

vars == <<cache, ttl, dirtyCarts, carts, cart_items, orders, order_items,
          orderSeq, products, req, run, nreq, nrun, ncat>>

redisVars == <<cache, ttl, dirtyCarts>>
pgCartVars == <<carts, cart_items>>
pgOrderVars == <<orders, order_items, orderSeq>>
countVars == <<nreq, nrun, ncat>>

\* ------------------------------------------------------------- finite maps
EmptyMap == [x \in {} |-> 0]
Put(m, k, v) == [x \in (DOMAIN m) \cup {k} |-> IF x = k THEN v ELSE m[x]]
Remove(m, k) == [x \in (DOMAIN m) \ {k} |-> m[x]]

\* ------------------------------------------------- PostgreSQL cart tables
\* the cart_items rows that hold the cart object cart
RowsOf(cart) == {[product_id |-> p, quantity |-> cart[p]] : p \in DOMAIN cart}
\* rows.reduce((acc, row) => { acc[row.product_id] = row.quantity; ... }, {})
CartOf(rows) ==
    [p \in {x.product_id : x \in rows} |->
        (CHOOSE x \in rows : x.product_id = p).quantity]
\* INSERT INTO carts (user_id, ..) VALUES ($1, ..) ON CONFLICT (user_id) DO
\* UPDATE ..: a row of the user is updated, and only without one a row is
\* inserted
upsertCart(rows, u) == IF BagIn(u, rows) THEN rows ELSE rows (+) SetToBag({u})
\* DELETE FROM carts WHERE user_id = $1
deleteCart(rows, u) == [x \in (DOMAIN rows) \ {u} |-> rows[x]]
\* INSERT INTO cart_items (..) VALUES .. ON CONFLICT (cart_id, product_id) DO
\* UPDATE SET quantity = EXCLUDED.quantity
upsertItems(rows, cart) ==
    {x \in rows : x.product_id \notin DOMAIN cart} \cup RowsOf(cart)
\* the cart of user u as the SELECT .. JOIN of GET /cart finds it
SelectCart(rows, items, u) == IF BagIn(u, rows) THEN CartOf(items[u]) ELSE EmptyMap

\* A Redis hash value is a string.  <<"i", n>> is the decimal string of the
\* integer n, <<"f", n>> a decimal string with a fraction whose integer part
\* is n (for instance "1.5").
IntStr(n) == <<"i", n>>
IsIntStr(s) == s[1] = "i"
\* parseInt(value, 10): the leading integer digits of the string
parseInt(s) == s[2]

\* A JSON value of a request body: <<"i", n>> the integer number n,
\* <<"f", n>> the number n + 1/2, <<"null", 0>> null or a missing member,
\* <<"str", n>> a string.
Num(n) == <<"i", n>>
typeofNumber(q) == q[1] \in {"i", "f"}
isNull(q) == q[1] = "null"
\* quantity > 0 and quantity <= 0 of a number
GtZero(q) == q[2] > 0 \/ (q[1] = "f" /\ q[2] >= 0)
\* quantity > 0 of any JSON value: a string is converted to a number first,
\* null and undefined compare false
jsGtZero(q) == IF isNull(q) THEN FALSE ELSE GtZero(q)
\* quantity.toString(): the decimal string of a number, a string itself
toString(q) == IF q[1] = "str" THEN IntStr(q[2]) ELSE q

parseCart(cartRaw) == [k \in DOMAIN cartRaw |-> parseInt(cartRaw[k])]

\* --------------------------------------------------- Redis hash commands
\* variant: the increment overwrites the field
hIncrBy_Overwrites(h, f, n) == Put(h, f, IntStr(n))

\* HINCRBY on an integer field (a missing field counts as 0)
hIncrBy(h, f, n) ==
    Put(h, f, IntStr((IF f \in DOMAIN h THEN parseInt(h[f]) ELSE 0) + n))
hSet(h, f, v) == Put(h, f, v)
hDel(h, f) == Remove(h, f)
\* a hash without fields is no key, and no key has no expiry
ttlAfter(h, t) == IF DOMAIN h = {} THEN NoExpiry ELSE t
\* EXPIRE only touches an existing key
expire(h, seconds) == IF DOMAIN h = {} THEN NoExpiry ELSE seconds

\* ------------------------------------------------------ request handlers
NoUser == "-"
NoProduct == "-"
\* (before is no local of the handlers: it records the cart hash of the
\* user at the arrival of the request, for the properties that compare the
\* hash after a call with the hash before it)
Idle == [pc |-> "idle", fresh |-> FALSE, op |-> "-", user |-> NoUser, productId |-> NoProduct,
         quantity |-> Num(0), items |-> << >>, cart |-> EmptyMap,
         orderId |-> 0, status |-> 0, body |-> EmptyMap, before |-> EmptyMap]

\* requests take the lowest free slot
FreeSlot(s) ==
    /\ req[s].pc = "idle"
    /\ \A t \in Slots : t < s => req[t].pc # "idle"

Begin(s, op, u, pc) ==
    [Idle EXCEPT !.op = op, !.user = u, !.pc = pc, !.fresh = TRUE,
                 !.before = cache[u]]

\* a handler that has just arrived or has just answered moves next, and so
\* does a sync run that has reached its last line
Urgent(s) == req[s].fresh \/ req[s].pc = "done"
RunEnding == \E j \in RunIds : run[j].pc \in {"finished", "failed"}
Turn(s) == ~RunEnding /\ \A t \in Slots : Urgent(t) => t = s
NoTurn == ~RunEnding /\ \A t \in Slots : ~Urgent(t)

\* handler s is about to run store call pc of operation op
At(s, op, pc) == Turn(s) /\ req[s].op = op /\ req[s].pc = pc
\* ... and has run it
Goto(s, pc) == req' = [req EXCEPT ![s].pc = pc, ![s].fresh = FALSE]

\* res.status(code).json(body): the handler is finished
Reply(r, code, body) ==
    [Idle EXCEPT !.pc = "done", !.op = r.op, !.user = r.user,
                 !.productId = r.productId, !.quantity = r.quantity,
                 !.items = r.items,
                 !.cart = r.cart, !.orderId = r.orderId,
                 !.status = code, !.body = body, !.before = r.before]

CanStart(s) == NoTurn /\ FreeSlot(s) /\ nreq > 0

\* the client has the response; the slot is free again
ResponseSent(s) ==
    /\ req[s].pc = "done"
    /\ req' = [req EXCEPT ![s] = Idle]
    /\ UNCHANGED <<redisVars, pgCartVars, pgOrderVars, products, run, countVars>>

\* A Redis or PostgreSQL call of a handler rejects (connection error,
\* timeout): the catch block answers 500.  In /checkout the inner catch
\* first issues ROLLBACK, which undoes nothing once COMMIT has run.
StoreSteps == {"hIncrBy", "hSet", "hDel", "exec", "expire", "sAdd",
               "hGetAll", "select", "restore", "del", "deleteCart",
               "connect", "tx", "delAfterCommit", "deleteCartAfterCommit"}

HandlerFails(s) ==
    /\ Turn(s) /\ req[s].pc \in StoreSteps
    /\ req' = [req EXCEPT ![s] = Reply(req[s], 500, EmptyMap)]
    /\ UNCHANGED <<redisVars, pgCartVars, pgOrderVars, products, run, countVars>>

\* ---- POST /cart/add
AddItem(s, u, p, q) ==
    /\ CanStart(s)
    /\ nreq' = nreq - 1
    /\ req' = [req EXCEPT ![s] =
         LET r == [Begin(s, "add", u, "hIncrBy") EXCEPT !.productId = p, !.quantity = q] IN
         IF p = NoProduct \/ ~typeofNumber(q) \/ ~GtZero(q)
         THEN Reply(r, 400, EmptyMap)
         ELSE r]
    /\ UNCHANGED <<redisVars, pgCartVars, pgOrderVars, products, run, nrun, ncat>>

AddHIncrBy(s) ==
    LET r == req[s] h == cache[r.user] IN
    /\ At(s, "add", "hIncrBy")
    /\ IF r.quantity[1] = "i" /\ (r.productId \in DOMAIN h => IsIntStr(h[r.productId]))
       THEN /\ cache' = [cache EXCEPT ![r.user] = hIncrBy(h, r.productId, r.quantity[2])]
            /\ Goto(s, "expire")
       ELSE \* ERR value is not an integer
            /\ cache' = cache
            /\ req' = [req EXCEPT ![s] = Reply(r, 500, EmptyMap)]
    /\ UNCHANGED <<ttl, dirtyCarts, pgCartVars, pgOrderVars, products, run, countVars>>

\* redis.expire(cartKey, CART_TTL) of /add, /update and /update-bulk
Expire(s) ==
    LET r == req[s] IN
    /\ Turn(s) /\ r.op \in {"add", "update", "bulk"} /\ r.pc = "expire"
    /\ ttl' = [ttl EXCEPT ![r.user] = expire(cache[r.user], CART_TTL)]
    /\ Goto(s, "sAdd")
    /\ UNCHANGED <<cache, dirtyCarts, pgCartVars, pgOrderVars, products, run, countVars>>

\* variant: the handler answers without marking the user dirty
MarkDirty_NoSAdd(s) ==
    LET r == req[s] IN
    /\ Turn(s) /\ r.op \in {"add", "update", "bulk", "clear"} /\ r.pc = "sAdd"
    /\ req' = [req EXCEPT ![s] = Reply(r, 200, EmptyMap)]
    /\ UNCHANGED <<redisVars, pgCartVars, pgOrderVars, products, run, countVars>>

\* variant: the handler also writes the cart through to PostgreSQL
MarkDirty_WritesThrough(s) ==
    LET r == req[s] IN
    /\ Turn(s) /\ r.op \in {"add", "update", "bulk", "clear"} /\ r.pc = "sAdd"
    /\ dirtyCarts' = dirtyCarts \cup {r.user}
    /\ carts' = upsertCart(carts, r.user)
    /\ cart_items' = [cart_items EXCEPT ![r.user] =
                         upsertItems({}, parseCart(cache[r.user]))]
    /\ req' = [req EXCEPT ![s] = Reply(r, 200, EmptyMap)]
    /\ UNCHANGED <<cache, ttl, pgOrderVars, products, run, countVars>>

\* redis.sAdd("dirtyCarts", userId) of /add, /update, /update-bulk, /clear
MarkDirty(s) ==
    LET r == req[s] IN
    /\ Turn(s) /\ r.op \in {"add", "update", "bulk", "clear"} /\ r.pc = "sAdd"
    /\ dirtyCarts' = dirtyCarts \cup {r.user}
    /\ req' = [req EXCEPT ![s] = Reply(r, 200, EmptyMap)]
    /\ UNCHANGED <<cache, ttl, pgCartVars, pgOrderVars, products, run, countVars>>

\* ---- PUT /cart/update
UpdateItem(s, u, p, q) ==
    /\ CanStart(s)
    /\ nreq' = nreq - 1
    /\ req' = [req EXCEPT ![s] =
         LET r == [Begin(s, "update", u,
                         IF isNull(q) \/ ~GtZero(q) THEN "hDel" ELSE "hSet")
                     EXCEPT !.productId = p, !.quantity = q] IN
         IF p = NoProduct \/ (~isNull(q) /\ ~typeofNumber(q))
         THEN Reply(r, 400, EmptyMap)
         ELSE r]
    /\ UNCHANGED <<redisVars, pgCartVars, pgOrderVars, products, run, nrun, ncat>>

\* variant: the removal deletes the whole cart hash
UpdateHDel_DeletesKey(s) ==
    LET r == req[s] IN
    /\ At(s, "update", "hDel")
    /\ cache' = [cache EXCEPT ![r.user] = EmptyMap]
    /\ ttl' = [ttl EXCEPT ![r.user] = NoExpiry]
    /\ Goto(s, "expire")
    /\ UNCHANGED <<dirtyCarts, pgCartVars, pgOrderVars, products, run, countVars>>

UpdateHDel(s) ==
    LET r == req[s] h == hDel(cache[r.user], r.productId) IN
    /\ At(s, "update", "hDel")
    /\ cache' = [cache EXCEPT ![r.user] = h]
    /\ ttl' = [ttl EXCEPT ![r.user] = ttlAfter(h, ttl[r.user])]
    /\ Goto(s, "expire")
    /\ UNCHANGED <<dirtyCarts, pgCartVars, pgOrderVars, products, run, countVars>>

UpdateHSet(s) ==
    LET r == req[s] IN
    /\ At(s, "update", "hSet")
    /\ cache' = [cache EXCEPT ![r.user] = hSet(@, r.productId, toString(r.quantity))]
    /\ Goto(s, "expire")
    /\ UNCHANGED <<ttl, dirtyCarts, pgCartVars, pgOrderVars, products, run, countVars>>

\* ---- POST /cart/update-bulk
\* variant: the queued commands take effect in the reverse of the list order
RECURSIVE applyItems_Reversed(_, _)
applyItems_Reversed(h, items) ==
    IF items = << >> THEN h
    ELSE LET it == Head(items)
             h2 == applyItems_Reversed(h, Tail(items)) IN
         IF jsGtZero(it.quantity)
         THEN hSet(h2, it.productId, toString(it.quantity))
         ELSE hDel(h2, it.productId)

\* the MULTI block of /update-bulk: the queued HSET/HDEL in list order
RECURSIVE applyItems(_, _)
applyItems(h, items) ==
    IF items = << >> THEN h
    ELSE LET it == Head(items) IN
         applyItems(IF jsGtZero(it.quantity)
                    THEN hSet(h, it.productId, toString(it.quantity))
                    ELSE hDel(h, it.productId),
                    Tail(items))

BulkUpdate(s, u, items) ==
    /\ CanStart(s)
    /\ nreq' = nreq - 1
    /\ req' = [req EXCEPT ![s] = [Begin(s, "bulk", u, "exec") EXCEPT !.items = items]]
    /\ UNCHANGED <<redisVars, pgCartVars, pgOrderVars, products, run, nrun, ncat>>

BulkExec(s) ==
    LET r == req[s] h == applyItems(cache[r.user], r.items) IN
    /\ At(s, "bulk", "exec")
    /\ cache' = [cache EXCEPT ![r.user] = h]
    /\ ttl' = [ttl EXCEPT ![r.user] = ttlAfter(h, ttl[r.user])]
    /\ Goto(s, "expire")
    /\ UNCHANGED <<dirtyCarts, pgCartVars, pgOrderVars, products, run, countVars>>

\* ---- DELETE /cart/clear
ClearCart(s, u) ==
    /\ CanStart(s)
    /\ nreq' = nreq - 1
    /\ req' = [req EXCEPT ![s] = Begin(s, "clear", u, "del")]
    /\ UNCHANGED <<redisVars, pgCartVars, pgOrderVars, products, run, nrun, ncat>>

ClearDel(s) ==
    LET r == req[s] IN
    /\ At(s, "clear", "del")
    /\ cache' = [cache EXCEPT ![r.user] = EmptyMap]
    /\ ttl' = [ttl EXCEPT ![r.user] = NoExpiry]
    /\ Goto(s, "deleteCart")
    /\ UNCHANGED <<dirtyCarts, pgCartVars, pgOrderVars, products, run, countVars>>

\* variant: /clear leaves the carts row and its cart_items in place
ClearDeleteCart_KeepsRow(s) ==
    LET r == req[s] IN
    /\ At(s, "clear", "deleteCart")
    /\ Goto(s, "sAdd")
    /\ UNCHANGED <<redisVars, pgCartVars, pgOrderVars, products, run, countVars>>

\* DELETE FROM carts WHERE user_id = $1 (cart_items go with the row)
ClearDeleteCart(s) ==
    LET r == req[s] IN
    /\ At(s, "clear", "deleteCart")
    /\ carts' = deleteCart(carts, r.user)
    /\ cart_items' = [cart_items EXCEPT ![r.user] = {}]
    /\ Goto(s, "sAdd")
    /\ UNCHANGED <<redisVars, pgOrderVars, products, run, countVars>>

\* ---- GET /cart
GetCart(s, u) ==
    /\ CanStart(s)
    /\ nreq' = nreq - 1
    /\ req' = [req EXCEPT ![s] = Begin(s, "get", u, "hGetAll")]
    /\ UNCHANGED <<redisVars, pgCartVars, pgOrderVars, products, run, nrun, ncat>>

GetHGetAll(s) ==
    LET r == req[s] cartRaw == cache[r.user] IN
    /\ At(s, "get", "hGetAll")
    /\ req' = [req EXCEPT ![s] =
         IF DOMAIN cartRaw = {} THEN [r EXCEPT !.pc = "select", !.fresh = FALSE]
         ELSE Reply(r, 200, parseCart(cartRaw))]
    /\ UNCHANGED <<redisVars, pgCartVars, pgOrderVars, products, run, countVars>>

\* SELECT ci.product_id, ci.quantity FROM cart_items ci JOIN carts c ...
GetSelect(s) ==
    LET r == req[s]
        rows == SelectCart(carts, cart_items, r.user) IN
    /\ At(s, "get", "select")
    /\ req' = [req EXCEPT ![s] =
         IF DOMAIN rows # {} THEN [r EXCEPT !.pc = "restore", !.fresh = FALSE, !.cart = rows]
         ELSE Reply(r, 200, EmptyMap)]
    /\ UNCHANGED <<redisVars, pgCartVars, pgOrderVars, products, run, countVars>>

\* variant: the restore also marks the user dirty
GetRestore_MarksDirty(s) ==
    LET r == req[s]
        h == [k \in (DOMAIN cache[r.user]) \cup (DOMAIN r.cart) |->
                IF k \in DOMAIN r.cart THEN IntStr(r.cart[k]) ELSE cache[r.user][k]] IN
    /\ At(s, "get", "restore")
    /\ cache' = [cache EXCEPT ![r.user] = h]
    /\ ttl' = [ttl EXCEPT ![r.user] = expire(h, CART_TTL)]
    /\ dirtyCarts' = dirtyCarts \cup {r.user}
    /\ req' = [req EXCEPT ![s] = Reply(r, 200, r.cart)]
    /\ UNCHANGED <<pgCartVars, pgOrderVars, products, run, countVars>>

\* variant: the rows are returned but not written back to Redis
GetRestore_SkipsCache(s) ==
    LET r == req[s] IN
    /\ At(s, "get", "restore")
    /\ req' = [req EXCEPT ![s] = Reply(r, 200, r.cart)]
    /\ UNCHANGED <<redisVars, pgCartVars, pgOrderVars, products, run, countVars>>

\* the MULTI block of GET /cart: HSET of every row, then EXPIRE
GetRestore(s) ==
    LET r == req[s]
        h == [k \in (DOMAIN cache[r.user]) \cup (DOMAIN r.cart) |->
                IF k \in DOMAIN r.cart THEN IntStr(r.cart[k]) ELSE cache[r.user][k]] IN
    /\ At(s, "get", "restore")
    /\ cache' = [cache EXCEPT ![r.user] = h]
    /\ ttl' = [ttl EXCEPT ![r.user] = expire(h, CART_TTL)]
    /\ req' = [req EXCEPT ![s] = Reply(r, 200, r.cart)]
    /\ UNCHANGED <<dirtyCarts, pgCartVars, pgOrderVars, products, run, countVars>>

\* ---- POST /cart/checkout
\* variant: the total adds the prices and forgets the quantities
RECURSIVE totalOf_IgnoresQuantity(_, _, _)
totalOf_IgnoresQuantity(cart, prices, ids) ==
    IF ids = {} THEN 0
    ELSE LET p == CHOOSE x \in ids : TRUE IN
         prices[p] + totalOf_IgnoresQuantity(cart, prices, ids \ {p})

RECURSIVE totalOf(_, _, _)
\* totalAmount += prices[productId] * quantity over the entries of the cart
totalOf(cart, prices, ids) ==
    IF ids = {} THEN 0
    ELSE LET p == CHOOSE x \in ids : TRUE IN
         prices[p] * cart[p] + totalOf(cart, prices, ids \ {p})

Checkout(s, u) ==
    /\ CanStart(s)
    /\ nreq' = nreq - 1
    /\ req' = [req EXCEPT ![s] = Begin(s, "checkout", u, "hGetAll")]
    /\ UNCHANGED <<redisVars, pgCartVars, pgOrderVars, products, run, nrun, ncat>>

\* variant: the empty cart is not turned away
CheckoutHGetAll_NoEmptyCheck(s) ==
    LET r == req[s] cart == parseCart(cache[r.user]) IN
    /\ At(s, "checkout", "hGetAll")
    /\ req' = [req EXCEPT ![s] = [r EXCEPT !.pc = "tx", !.fresh = FALSE, !.cart = cart]]
    /\ UNCHANGED <<redisVars, pgCartVars, pgOrderVars, products, run, countVars>>

CheckoutHGetAll(s) ==
    LET r == req[s] cart == parseCart(cache[r.user]) IN
    /\ At(s, "checkout", "hGetAll")
    /\ req' = [req EXCEPT ![s] =
         IF DOMAIN cart = {} THEN Reply(r, 400, EmptyMap)
         ELSE [r EXCEPT !.pc = "tx", !.fresh = FALSE, !.cart = cart]]
    /\ UNCHANGED <<redisVars, pgCartVars, pgOrderVars, products, run, countVars>>

\* variant: products missing from the catalog are dropped from the order
CheckoutTx_DropsMissing(s) ==
    LET r == req[s]
        found == DOMAIN r.cart \cap DOMAIN products
        prices == [p \in found |-> products[p]]
        orderId == orderSeq + 1 IN
    /\ At(s, "checkout", "tx")
    /\ orderSeq' = orderId
    /\ orders' = orders \cup
         {[id |-> orderId, user_id |-> r.user, status |-> "pending",
           total_amount |-> totalOf(r.cart, prices, found)]}
    /\ order_items' = order_items \cup
         {[order_id |-> orderId, product_id |-> p,
           quantity |-> r.cart[p], price |-> prices[p]] : p \in found}
    /\ req' = [req EXCEPT ![s].pc = "delAfterCommit", ![s].orderId = orderId]
    /\ UNCHANGED <<redisVars, pgCartVars, products, run, countVars>>

\* pool.connect, BEGIN, the price SELECT, the INSERTs and COMMIT
CheckoutTx(s) ==
    LET r == req[s]
        productIds == DOMAIN r.cart
        prices == [p \in productIds \cap DOMAIN products |-> products[p]]
        orderId == orderSeq + 1 IN
    /\ At(s, "checkout", "tx")
    /\ IF DOMAIN prices # productIds
       THEN \* "One or more products in the cart not found." -> ROLLBACK
            /\ req' = [req EXCEPT ![s] = Reply(r, 500, EmptyMap)]
            /\ UNCHANGED pgOrderVars
       ELSE /\ orderSeq' = orderId
            /\ orders' = orders \cup
                 {[id |-> orderId, user_id |-> r.user, status |-> "pending",
                   total_amount |-> totalOf(r.cart, prices, productIds)]}
            /\ order_items' = order_items \cup
                 {[order_id |-> orderId, product_id |-> p,
                   quantity |-> r.cart[p], price |-> prices[p]] : p \in productIds}
            /\ req' = [req EXCEPT ![s].pc = "delAfterCommit", ![s].orderId = orderId]
    /\ UNCHANGED <<redisVars, pgCartVars, products, run, countVars>>

CheckoutDel(s) ==
    LET r == req[s] IN
    /\ At(s, "checkout", "delAfterCommit")
    /\ cache' = [cache EXCEPT ![r.user] = EmptyMap]
    /\ ttl' = [ttl EXCEPT ![r.user] = NoExpiry]
    /\ Goto(s, "deleteCartAfterCommit")
    /\ UNCHANGED <<dirtyCarts, pgCartVars, pgOrderVars, products, run, countVars>>

\* variant: the carts row is left behind
CheckoutDeleteCart_KeepsRow(s) ==
    LET r == req[s] IN
    /\ At(s, "checkout", "deleteCartAfterCommit")
    /\ req' = [req EXCEPT ![s] = Reply(r, 200, EmptyMap)]
    /\ UNCHANGED <<redisVars, pgCartVars, pgOrderVars, products, run, countVars>>

CheckoutDeleteCart(s) ==
    LET r == req[s] IN
    /\ At(s, "checkout", "deleteCartAfterCommit")
    /\ carts' = deleteCart(carts, r.user)
    /\ cart_items' = [cart_items EXCEPT ![r.user] = {}]
    /\ req' = [req EXCEPT ![s] = Reply(r, 200, EmptyMap)]
    /\ UNCHANGED <<redisVars, pgOrderVars, products, run, countVars>>

\* ------------------------------------------------------------ cart sync job
NotRunning == [pc |-> "idle", todo |-> {}, userId |-> NoUser,
               cart |-> EmptyMap, synced |-> "-"]

\* callbacks take the lowest free run id
FreeRun(j) ==
    /\ run[j].pc = "idle"
    /\ \A k \in RunIds : k < j => run[k].pc # "idle"

\* no callback of the sync job is in flight
JobIdle == \A j \in RunIds : run[j].pc = "idle"

\* the cron callback starts, whether or not an earlier callback is still
\* running: redis.sMembers("dirtyCarts")
startCartSyncJob(j) ==
    /\ NoTurn
    /\ FreeRun(j)
    /\ nrun > 0
    /\ nrun' = nrun - 1
    /\ run' = [run EXCEPT ![j] =
         IF dirtyCarts = {} THEN [NotRunning EXCEPT !.pc = "finished"]
         ELSE [NotRunning EXCEPT !.pc = "hGetAll", !.todo = dirtyCarts]]
    /\ UNCHANGED <<redisVars, pgCartVars, pgOrderVars, products, req, nreq, ncat>>

\* variant: syncCartToPostgres does not return early on an empty cart
SyncHGetAll_NoEmptyCheck(j) ==
    /\ NoTurn
    /\ run[j].pc = "hGetAll"
    /\ \E userId \in run[j].todo :
         run' = [run EXCEPT ![j] =
           [@ EXCEPT !.userId = userId, !.cart = parseCart(cache[userId]),
                     !.pc = "tx", !.synced = "-"]]
    /\ UNCHANGED <<redisVars, pgCartVars, pgOrderVars, products, req, countVars>>

\* next userId of the loop: hGetAll, parseCart, and the first line of
\* syncCartToPostgres (an empty cart returns at once)
SyncHGetAll(j) ==
    /\ NoTurn
    /\ run[j].pc = "hGetAll"
    /\ \E userId \in run[j].todo :
         LET cart == parseCart(cache[userId]) IN
         run' = [run EXCEPT ![j] =
           [@ EXCEPT !.userId = userId, !.cart = cart,
                     !.pc = IF DOMAIN cart = {} THEN "sRem" ELSE "tx",
                     !.synced = IF DOMAIN cart = {} THEN "skipped" ELSE "-"]]
    /\ UNCHANGED <<redisVars, pgCartVars, pgOrderVars, products, req, countVars>>

\* variant: plain INSERTs, without ON CONFLICT and without the DELETE
syncCartToPostgres_PlainInserts(j) ==
    LET r == run[j] IN
    /\ NoTurn
    /\ r.pc = "tx"
    /\ carts' = carts (+) SetToBag({r.userId})
    /\ cart_items' = [cart_items EXCEPT ![r.userId] = @ \cup RowsOf(r.cart)]
    /\ run' = [run EXCEPT ![j].pc = "sRem", ![j].synced = "committed"]
    /\ UNCHANGED <<redisVars, pgOrderVars, products, req, countVars>>

\* variant: the items are upserted without the DELETE of the old cart_items
syncCartToPostgres_KeepsOldRows(j) ==
    LET r == run[j] IN
    /\ NoTurn
    /\ r.pc = "tx"
    /\ carts' = upsertCart(carts, r.userId)
    /\ cart_items' = [cart_items EXCEPT ![r.userId] = upsertItems(@, r.cart)]
    /\ run' = [run EXCEPT ![j].pc = "sRem", ![j].synced = "committed"]
    /\ UNCHANGED <<redisVars, pgOrderVars, products, req, countVars>>

\* syncCartToPostgres: pool.connect, BEGIN, upsert of the carts row, DELETE of
\* the old cart_items, INSERT of the items, COMMIT
syncCartToPostgres(j) ==
    LET r == run[j] IN
    /\ NoTurn
    /\ r.pc = "tx"
    /\ carts' = upsertCart(carts, r.userId)
    /\ cart_items' = [cart_items EXCEPT ![r.userId] = upsertItems({}, r.cart)]
    /\ run' = [run EXCEPT ![j].pc = "sRem", ![j].synced = "committed"]
    /\ UNCHANGED <<redisVars, pgOrderVars, products, req, countVars>>

\* a statement of the transaction rejects: the catch block issues ROLLBACK,
\* logs, and syncCartToPostgres returns normally
SyncRollback(j) ==
    /\ NoTurn
    /\ run[j].pc = "tx"
    /\ run' = [run EXCEPT ![j].pc = "sRem", ![j].synced = "rolledback"]
    /\ UNCHANGED <<redisVars, pgCartVars, pgOrderVars, products, req, countVars>>

\* variant: the run empties the whole dirty set
SyncSRem_ClearsSet(j) ==
    LET r == run[j] todo == r.todo \ {r.userId} IN
    /\ NoTurn
    /\ r.pc = "sRem"
    /\ dirtyCarts' = {}
    /\ run' = [run EXCEPT ![j] =
         IF todo = {} THEN [NotRunning EXCEPT !.pc = "finished"]
         ELSE [NotRunning EXCEPT !.pc = "hGetAll", !.todo = todo]]
    /\ UNCHANGED <<cache, ttl, pgCartVars, pgOrderVars, products, req, countVars>>

\* redis.sRem("dirtyCarts", userId), then the next iteration or the end
SyncSRem(j) ==
    LET r == run[j] todo == r.todo \ {r.userId} IN
    /\ NoTurn
    /\ r.pc = "sRem"
    /\ dirtyCarts' = dirtyCarts \ {r.userId}
    /\ run' = [run EXCEPT ![j] =
         IF todo = {} THEN [NotRunning EXCEPT !.pc = "finished"]
         ELSE [NotRunning EXCEPT !.pc = "hGetAll", !.todo = todo]]
    /\ UNCHANGED <<cache, ttl, pgCartVars, pgOrderVars, products, req, countVars>>

\* hGetAll, pool.connect or sRem rejects: the outer catch is entered, the
\* rest of the loop is not run
SyncJobFails(j) ==
    /\ NoTurn
    /\ run[j].pc \in {"hGetAll", "tx", "sRem"}
    /\ run' = [run EXCEPT ![j].pc = "failed"]
    /\ UNCHANGED <<redisVars, pgCartVars, pgOrderVars, products, req, countVars>>

\* the callback logs "Cart sync job finished" or "Cart sync job failed" and
\* returns
SyncEnd(j) ==
    /\ run[j].pc \in {"finished", "failed"}
    /\ run' = [run EXCEPT ![j] = NotRunning]
    /\ UNCHANGED <<redisVars, pgCartVars, pgOrderVars, products, req, countVars>>

\* -------------------------------------------------------------- environment
Prices == {1, 2}

\* the catalog is maintained outside these handlers
SetPrice(p, v) ==
    /\ NoTurn
    /\ ncat > 0
    /\ ncat' = ncat - 1
    /\ (p \in DOMAIN products => products[p] # v)
    /\ products' = Put(products, p, v)
    /\ UNCHANGED <<redisVars, pgCartVars, pgOrderVars, req, run, nreq, nrun>>

DeleteProduct(p) ==
    /\ NoTurn
    /\ ncat > 0
    /\ ncat' = ncat - 1
    /\ p \in DOMAIN products
    /\ products' = Remove(products, p)
    /\ UNCHANGED <<redisVars, pgCartVars, pgOrderVars, req, run, nreq, nrun>>

\* Redis drops cart:<user> (expiry, eviction, restart)
Evict(u) ==
    /\ NoTurn
    /\ DOMAIN cache[u] # {}
    /\ cache' = [cache EXCEPT ![u] = EmptyMap]
    /\ ttl' = [ttl EXCEPT ![u] = NoExpiry]
    /\ UNCHANGED <<dirtyCarts, pgCartVars, pgOrderVars, products, req, run, countVars>>

\* ------------------------------------------------------------ specification
Init ==
    /\ cache = [u \in Users |-> EmptyMap]
    /\ ttl = [u \in Users |-> NoExpiry]
    /\ dirtyCarts = {}
    /\ carts = EmptyBag
    /\ cart_items = [u \in Users |-> {}]
    /\ orders = {}
    /\ order_items = {}
    /\ orderSeq = 0
    /\ products = [p \in Products |-> IF p = "A" THEN 1 ELSE 2]
    /\ req = [s \in Slots |-> Idle]
    /\ run = [j \in RunIds |-> NotRunning]
    /\ nreq = MaxRequests /\ nrun = MaxRuns /\ ncat = MaxCatalogChanges

Quantities == {Num(n) : n \in 0..MaxQty}
BulkLists ==
    {<<[productId |-> "A", quantity |-> Num(0)], [productId |-> "B", quantity |-> Num(1)]>>}

\* any JSON value a request body may carry as quantity: integers, numbers
\* with a fraction (0.5, 1.5, ..), null, a string
JsonQuantities ==
    Quantities \cup {<<"f", n>> : n \in 0..MaxQty} \cup {<<"null", 0>>, <<"str", 1>>}

\* any productId a request body may carry: a product id, or none
ProductIds == Products \cup {NoProduct}

\* the requests users US may send
Mutations(US) ==
    \E s \in Slots, u \in US :
        \/ \E p \in Products, q \in Quantities : AddItem(s, u, p, q)
        \/ \E p \in Products, q \in Quantities : UpdateItem(s, u, p, q)
        \/ \E items \in BulkLists : BulkUpdate(s, u, items)
Reads(US) == \E s \in Slots, u \in US : GetCart(s, u)
Clears(US) == \E s \in Slots, u \in US : ClearCart(s, u)
Checkouts(US) == \E s \in Slots, u \in US : Checkout(s, u)

MutationSteps ==
    \E s \in Slots :
        \/ AddHIncrBy(s) \/ UpdateHDel(s) \/ UpdateHSet(s) \/ BulkExec(s)
        \/ Expire(s) \/ MarkDirty(s)
ReadSteps == \E s \in Slots : GetHGetAll(s) \/ GetSelect(s) \/ GetRestore(s)
ClearSteps == \E s \in Slots : ClearDel(s) \/ ClearDeleteCart(s)
CheckoutSteps ==
    \E s \in Slots :
        \/ CheckoutHGetAll(s) \/ CheckoutTx(s) \/ CheckoutDel(s) \/ CheckoutDeleteCart(s)
Responses == \E s \in Slots : ResponseSent(s)
HandlerFailures == \E s \in Slots : HandlerFails(s)

SyncStart == \E j \in RunIds : startCartSyncJob(j)
\* a tick that finds no earlier callback in flight (a run is shorter than
\* the hour between two ticks)
SyncStartAlone == JobIdle /\ SyncStart
SyncSteps ==
    \E j \in RunIds :
        SyncHGetAll(j) \/ syncCartToPostgres(j) \/ SyncSRem(j) \/ SyncEnd(j)
SyncFailures == \E j \in RunIds : SyncRollback(j) \/ SyncJobFails(j)

Catalog == \E p \in Products : DeleteProduct(p) \/ \E v \in Prices : SetPrice(p, v)
Eviction == \E u \in Users : Evict(u)

\* one user's requests, overlapping each other and the sync job (whose runs
\* do not overlap each other)
Next ==
    \/ Mutations({"u1"}) \/ Reads({"u1"}) \/ Clears({"u1"}) \/ Checkouts({"u1"})
    \/ MutationSteps \/ ReadSteps \/ ClearSteps \/ CheckoutSteps
    \/ Responses \/ HandlerFailures
    \/ SyncStartAlone \/ SyncSteps \/ SyncFailures
    \/ Eviction

Spec == Init /\ [][Next]_vars

\* Only /add, /update and /update-bulk write the cart hashes (no eviction,
\* no restore, no delete), next to the sync job.
NextWrites ==
    \/ Mutations({"u1"}) \/ MutationSteps \/ Responses
    \/ SyncStartAlone \/ SyncSteps \/ SyncFailures

SpecWrites == Init /\ [][NextWrites]_vars

\* Operations one at a time: a request arrives only when no handler and no
\* sync run is in flight, and the cron callback fires only then.
Quiet ==
    /\ \A s \in Slots : req[s].pc = "idle"
    /\ \A j \in RunIds : run[j].pc = "idle"

\* no request is in flight (a sync run may be)
NoRequest == \A s \in Slots : req[s].pc = "idle"

\* Every operation of one user, never overlapping, with store failures,
\* sync runs and cache evictions in between.
NextSeq ==
    \/ Quiet /\ Mutations({"u1"})
    \/ Quiet /\ Reads({"u1"})
    \/ Quiet /\ Clears({"u1"})
    \/ Quiet /\ Checkouts({"u1"})
    \/ MutationSteps \/ ReadSteps \/ ClearSteps \/ CheckoutSteps
    \/ Responses \/ HandlerFailures
    \/ Quiet /\ SyncStart
    \/ SyncSteps \/ SyncFailures
    \/ Eviction

SpecSeq == Init /\ [][NextSeq]_vars

\* The cart is filled first and only checked out afterwards: no /add,
\* /update or /update-bulk arrives once a checkout is in flight or an order
\* exists, and no checkout arrives while one of them is in flight.  No store
\* call rejects.
NoCheckoutYet == orders = {} /\ \A s \in Slots : req[s].op # "checkout"
NoMutationInFlight == \A s \in Slots : req[s].op \notin {"add", "update", "bulk"}

NextCheckouts ==
    \/ NoCheckoutYet /\ Mutations({"u1"})
    \/ NoMutationInFlight /\ Checkouts({"u1"})
    \/ MutationSteps \/ CheckoutSteps \/ Responses

SpecCheckouts == Init /\ [][NextCheckouts]_vars

\* Requests one at a time (no sync job) while the catalog changes under
\* them at any moment.
NextCatalog ==
    \/ Quiet /\ Mutations({"u1"})
    \/ Quiet /\ Clears({"u1"})
    \/ Quiet /\ Checkouts({"u1"})
    \/ MutationSteps \/ ClearSteps \/ CheckoutSteps
    \/ Responses \/ HandlerFailures
    \/ Catalog

SpecCatalog == Init /\ [][NextCatalog]_vars

\* /add, /update and /update-bulk and the sync job, one at a time, and no
\* store call rejects
NextCalm ==
    \/ Quiet /\ Mutations({"u1"})
    \/ MutationSteps \/ Responses
    \/ Quiet /\ SyncStart
    \/ SyncSteps

SpecCalm == Init /\ [][NextCalm]_vars

\* Two users fill their carts one request at a time; sync runs start when
\* nothing is in flight and their store calls may reject.
NextBatch ==
    \/ Quiet /\ Mutations(Users)
    \/ MutationSteps \/ Responses
    \/ Quiet /\ SyncStart
    \/ SyncSteps \/ SyncFailures

SpecBatch == Init /\ [][NextBatch]_vars

\* /add and /update with any JSON quantity, with or without a productId, and GET /cart, one at a time, on
\* a cart that starts absent: no sync job, no eviction, no rejected call.
NextInputs ==
    \/ Quiet /\ \E s \in Slots, p \in ProductIds, q \in JsonQuantities :
                    AddItem(s, "u1", p, q) \/ UpdateItem(s, "u1", p, q)
    \/ Quiet /\ Reads({"u1"})
    \/ \E s \in Slots :
          \/ AddHIncrBy(s) \/ UpdateHDel(s) \/ UpdateHSet(s)
          \/ Expire(s) \/ MarkDirty(s)
          \/ GetHGetAll(s) \/ GetSelect(s)
    \/ Responses

SpecInputs == Init /\ [][NextInputs]_vars

\* item lists of /update-bulk with any JSON quantity
JsonBulkLists ==
    BulkLists \cup {<<[productId |-> p, quantity |-> q]>> :
                        p \in Products, q \in JsonQuantities}

\* /update and /update-bulk with any JSON quantity, with or without a
\* productId, after an /add, one at a time; no rejected store call.
NextMalformed ==
    \/ Quiet /\ nreq = MaxRequests /\ \E s \in Slots : AddItem(s, "u1", "A", Num(1))
    \/ Quiet /\ nreq < MaxRequests
             /\ \E s \in Slots :
                   \/ \E p \in ProductIds, q \in JsonQuantities : UpdateItem(s, "u1", p, q)
                   \/ \E items \in JsonBulkLists : BulkUpdate(s, "u1", items)
    \/ MutationSteps \/ Responses

SpecMalformed == Init /\ [][NextMalformed]_vars

\* item lists of /update-bulk with one or two items, each a product and a
\* JSON number (the same product may be listed twice)
NumberItems ==
    {[productId |-> p, quantity |-> q] :
        p \in Products, q \in Quantities \cup {<<"f", n>> : n \in 0..MaxQty}}
NumberBulkLists ==
    {<<i>> : i \in NumberItems} \cup {<<i, k>> : i \in NumberItems, k \in NumberItems}

\* /add and /update-bulk with lists of numbers, one request at a time; no
\* sync job and no rejected store call.
NextBulk ==
    \/ Quiet /\ \E s \in Slots, p \in Products : AddItem(s, "u1", p, Num(1))
    \/ Quiet /\ \E s \in Slots, items \in NumberBulkLists : BulkUpdate(s, "u1", items)
    \/ \E s \in Slots : AddHIncrBy(s) \/ BulkExec(s) \/ Expire(s) \/ MarkDirty(s)
    \/ Responses

SpecBulk == Init /\ [][NextBulk]_vars

\* POST /add, DELETE /clear and POST /checkout of one user, one request at
\* a time, while
\* sync runs, also two at once, flush or roll back between their store
\* calls.
NextDurable ==
    \/ NoRequest /\ \E s \in Slots, p \in Products : AddItem(s, "u1", p, Num(1))
    \/ NoRequest /\ Clears({"u1"})
    \/ NoRequest /\ Checkouts({"u1"})
    \/ \E s \in Slots : AddHIncrBy(s) \/ Expire(s) \/ MarkDirty(s)
    \/ ClearSteps \/ CheckoutSteps \/ Responses
    \/ SyncStart \/ SyncSteps
    \/ \E j \in RunIds : SyncRollback(j)

SpecDurable == Init /\ [][NextDurable]_vars

\* The user fills the cart, then sends /clear as the last but one request
\* and GET /cart as the last one.  Sync runs overlap the requests freely.
\* The GET is sent once /clear has answered, every run has ended and the
\* dirty set is drained.  No store call rejects.
NextClear ==
    \/ nreq > 2 /\ NoRequest /\ Mutations({"u1"})
    \/ nreq = 2 /\ NoRequest /\ Clears({"u1"})
    \/ nreq = 1 /\ Quiet /\ dirtyCarts = {} /\ Reads({"u1"})
    \/ MutationSteps \/ ClearSteps \/ ReadSteps \/ Responses
    \/ SyncStartAlone \/ SyncSteps

SpecClear == Init /\ [][NextClear]_vars

\* Writes and reads of one user, one request at a time, while sync runs
\* flush (or roll back) at any moment between their store calls.
NextFlush ==
    \/ NoRequest /\ Mutations({"u1"})
    \/ NoRequest /\ Reads({"u1"})
    \/ MutationSteps \/ ReadSteps \/ Responses
    \/ SyncStartAlone \/ SyncSteps
    \/ \E j \in RunIds : SyncRollback(j)

SpecFlush == Init /\ [][NextFlush]_vars

\* The cron ticks as node-cron delivers them: every tick calls the callback,
\* also while an earlier callback is still awaiting a store call.  Requests
\* fill the cart one at a time.
NextTicks ==
    \/ NoRequest /\ Mutations({"u1"})
    \/ MutationSteps \/ Responses
    \/ SyncStart \/ SyncSteps

SpecTicks == Init /\ [][NextTicks]_vars

\* every request in flight is a call of operation op
OnlyInFlight(op) == \A s \in Slots : req[s].pc = "idle" \/ req[s].op = op

\* /add calls of one user overlap each other, and so do /update calls: a
\* request arrives while another one awaits its expire or its sAdd.  No
\* sync job and no rejected store call.
NextRace ==
    \/ OnlyInFlight("add")
         /\ \E s \in Slots, p \in Products, q \in Quantities : AddItem(s, "u1", p, q)
    \/ OnlyInFlight("update")
         /\ \E s \in Slots, p \in Products, q \in Quantities : UpdateItem(s, "u1", p, q)
    \/ \E s \in Slots : AddHIncrBy(s) \/ UpdateHDel(s) \/ UpdateHSet(s)
    \/ \E s \in Slots : Expire(s) \/ MarkDirty(s)
    \/ Responses

SpecRace == Init /\ [][NextRace]_vars

\* Every operation of one user, one request at a time, while a sync run
\* steps between the store calls.  No store call rejects.
NextFrame ==
    \/ NoRequest /\ Mutations({"u1"})
    \/ NoRequest /\ Reads({"u1"})
    \/ NoRequest /\ Clears({"u1"})
    \/ NoRequest /\ Checkouts({"u1"})
    \/ MutationSteps \/ ReadSteps \/ ClearSteps \/ CheckoutSteps
    \/ Responses
    \/ SyncStartAlone \/ SyncSteps

SpecFrame == Init /\ [][NextFrame]_vars

\* The user fills the cart, then sends /checkout as the last but one request
\* and GET /cart as the last one.  Sync runs overlap the requests.  The GET
\* is sent once the checkout has answered and every run has ended.  No
\* store call rejects.
NextAfterCheckout ==
    \/ nreq > 2 /\ NoRequest /\ Mutations({"u1"})
    \/ nreq = 2 /\ NoRequest /\ Checkouts({"u1"})
    \/ nreq = 1 /\ Quiet /\ Reads({"u1"})
    \/ MutationSteps \/ CheckoutSteps \/ ReadSteps \/ Responses
    \/ SyncStartAlone \/ SyncSteps

SpecAfterCheckout == Init /\ [][NextAfterCheckout]_vars

\* The user sends /add, /update and /update-bulk and, as the last request,
\* GET /cart; sync runs come in between; nothing overlaps.  The GET is sent
\* once the dirty set is drained.  No store call rejects, and Redis drops no
\* key.
NextRemoved ==
    \/ nreq > 1 /\ Quiet /\ Mutations({"u1"})
    \/ nreq = 1 /\ Quiet /\ dirtyCarts = {} /\ Reads({"u1"})
    \/ MutationSteps \/ ReadSteps \/ Responses
    \/ Quiet /\ SyncStart
    \/ SyncSteps

SpecRemoved == Init /\ [][NextRemoved]_vars

\* The user only adds items and sends GET /cart as the last request; sync
\* runs come in between, and Redis may drop the cart hash between two
\* operations.  Nothing overlaps and no store call rejects.
NextEvicted ==
    \/ nreq > 1 /\ Quiet
         /\ \E s \in Slots, p \in Products, n \in 1..MaxQty : AddItem(s, "u1", p, Num(n))
    \/ nreq = 1 /\ Quiet /\ Reads({"u1"})
    \/ \E s \in Slots : AddHIncrBy(s) \/ Expire(s) \/ MarkDirty(s)
    \/ ReadSteps \/ Responses
    \/ Quiet /\ SyncStart
    \/ SyncSteps
    \/ Quiet /\ Evict("u1")

SpecEvicted == Init /\ [][NextEvicted]_vars

\* Every operation of two users and the sync job, one at a time, and no
\* store call rejects.
NextUsers ==
    \/ Quiet /\ \E s \in Slots, u \in Users :
                   \/ \E p \in Products : AddItem(s, u, p, Num(1))
                   \/ \E n \in 0..1 : UpdateItem(s, u, "A", Num(n))
                   \/ \E items \in BulkLists : BulkUpdate(s, u, items)
    \/ Quiet /\ Reads(Users)
    \/ Quiet /\ Clears(Users)
    \/ Quiet /\ Checkouts(Users)
    \/ MutationSteps \/ ReadSteps \/ ClearSteps \/ CheckoutSteps
    \/ Responses
    \/ Quiet /\ SyncStart
    \/ SyncSteps

SpecUsers == Init /\ [][NextUsers]_vars

\* ------------------------------------------------------------------ claims
InFlight(u) == \E s \in Slots : req[s].pc # "idle" /\ req[s].user = u
Durable(u) == SelectCart(carts, cart_items, u)

\* C1: a user whose flush was rolled back is not removed from the dirty set
\* by the run: the step that follows the rollback leaves the user dirty.
C1_FailedFlushStaysDirty ==
    [][\A j \in RunIds :
         (run[j].pc = "sRem" /\ run[j].synced = "rolledback"
             /\ run[j].userId \in dirtyCarts)
         => run[j].userId \in dirtyCarts']_vars

\* C2: with no request and no sync run in progress, a user outside the dirty
\* set whose cart hash is present has exactly that cart in cart_items.
C2_CleanMeansMirrored ==
    \A u \in Users :
        (~InFlight(u) /\ JobIdle /\ u \notin dirtyCarts /\ DOMAIN cache[u] # {})
        => Durable(u) = parseCart(cache[u])

\* C3: once the requests have stopped and the dirty set has been drained
\* (from then on no run changes anything), every user's cart_items equal the
\* cart hash, and a user without a cart hash has no cart_items.
C3_DrainedMeansConverged ==
    ((\A u \in Users : ~InFlight(u)) /\ JobIdle /\ dirtyCarts = {})
    => \A u \in Users : Durable(u) = parseCart(cache[u])

\* C4: when the sync run removes a user whose cart hash was written, by a
\* request that has completed, after the run read it, the user stays dirty.
C4_NoLostUpdate ==
    [][\A j \in RunIds :
         (run[j].pc = "sRem" /\ run[j].synced = "committed"
             /\ parseCart(cache[run[j].userId]) # run[j].cart
             /\ ~InFlight(run[j].userId)
             /\ run'[j].pc # "sRem")
         => run[j].userId \in dirtyCarts']_vars

RepliedTo(s, op, code) ==
    req[s].pc = "done" /\ req[s].op = op /\ req[s].status = code
OrdersOf(u) == {o \in orders : o.user_id = u}
ItemsOf(orderId) == {i \in order_items : i.order_id = orderId}

\* C5: checkouts of one cart, with no /add, /update or /update-bulk between
\* them, create at most one order.
C5_AtMostOneOrderPerCart ==
    \A u \in Users : Cardinality(OrdersOf(u)) <= 1

\* C6: a checkout answers 500 only if the order it inserted is not visible
\* (neither the orders row nor any order_items row) and it has not deleted
\* the cart hash.
C6_FailedCheckoutLeavesNothing ==
    [][\A s \in Slots :
         (req'[s].pc = "done" /\ req'[s].op = "checkout" /\ req'[s].status = 500
             /\ req[s].pc # "done")
         => /\ \A o \in orders' : o.id # req'[s].orderId
            /\ \A i \in order_items' : i.order_id # req'[s].orderId
            /\ req[s].pc # "deleteCartAfterCommit"]_vars

\* C7: a checkout that answers 200 for the cart it read, with nothing else
\* in flight, has created exactly one orders row, one order_items row per
\* cart entry with the entry's quantity, and has left neither a cart hash
\* nor a carts row for the user.
C7_CheckoutAtomic ==
    \A s \in Slots :
        RepliedTo(s, "checkout", 200) =>
            LET r == req[s] IN
            /\ DOMAIN r.cart # {}
            /\ Cardinality({o \in OrdersOf(r.user) : o.id >= r.orderId}) = 1
            /\ orderSeq = r.orderId
            /\ {<<i.product_id, i.quantity>> : i \in ItemsOf(r.orderId)}
                 = {<<p, r.cart[p]>> : p \in DOMAIN r.cart}
            /\ Cardinality(ItemsOf(r.orderId)) = Cardinality(DOMAIN r.cart)
            /\ DOMAIN cache[r.user] = {}
            /\ ~BagIn(r.user, carts)
            /\ cart_items[r.user] = {}

C7_Witness ==
    \E s \in Slots :
        /\ RepliedTo(s, "checkout", 200)
        /\ Cardinality(DOMAIN req[s].cart) = 2

RECURSIVE SumRows(_, _)
SumRows(rows, prices) ==
    IF rows = {} THEN 0
    ELSE LET i == CHOOSE x \in rows : TRUE IN
         i.quantity * prices[i.product_id] + SumRows(rows \ {i}, prices)

\* C8: every order is inserted with the catalog prices of that moment: each
\* of its order_items rows carries the product's current price, and its
\* total is the sum of quantity times that price over the rows.
C8_TotalFromCatalog ==
    [][\A o \in orders' \ orders :
         LET rows == {i \in order_items' : i.order_id = o.id} IN
         /\ rows # {}
         /\ \A i \in rows : i.product_id \in DOMAIN products
                            /\ i.price = products[i.product_id]
         /\ o.total_amount = SumRows(rows, products)]_vars

C8_Witness ==
    \E o \in orders, i \in order_items :
        /\ i.order_id = o.id
        /\ i.product_id = "A" /\ i.price = 2 /\ i.quantity = 2
        /\ o.total_amount = 4

\* C9: when the price SELECT of a checkout misses a product of the cart, the
\* checkout answers 500, inserts no orders or order_items row and leaves
\* the cart hash as it is.
C9_MissingProductFails ==
    [][\A s \in Slots :
         (req[s].op = "checkout" /\ req[s].pc = "tx" /\ req'[s] # req[s]
             /\ ~(DOMAIN req[s].cart \subseteq DOMAIN products))
         => /\ req'[s].pc = "done" /\ req'[s].status = 500
            /\ orders' = orders /\ order_items' = order_items
            /\ cache' = cache]_vars

C9_Witness ==
    \E s \in Slots :
        /\ RepliedTo(s, "checkout", 500)
        /\ ~(DOMAIN req[s].cart \subseteq DOMAIN products)
        /\ DOMAIN cache[req[s].user] # {}
        /\ orders = {}

\* C10: when the hGetAll of a checkout finds no cart hash, the checkout
\* answers 400 (500 if the call itself is rejected) and no store changes,
\* whatever cart_items hold.
C10_EmptyCartRejected ==
    [][\A s \in Slots :
         (req[s].op = "checkout" /\ req[s].pc = "hGetAll" /\ req'[s] # req[s]
             /\ DOMAIN cache[req[s].user] = {})
         => /\ req'[s].pc = "done" /\ req'[s].status \in {400, 500}
            /\ UNCHANGED <<cache, ttl, dirtyCarts, carts, cart_items,
                           orders, order_items>>]_vars

C10_Witness ==
    \E s \in Slots :
        /\ RepliedTo(s, "checkout", 400)
        /\ DOMAIN Durable(req[s].user) # {}

\* C11: when a sync run stops because the cart read or the connection of one
\* user was rejected, no other user of its snapshot is left unprocessed: at
\* the read only the user being read remains, at the connection nobody but
\* the user being flushed.
C11_FailureIsolated ==
    [][\A j \in RunIds :
         (run[j].pc \in {"hGetAll", "tx"} /\ run'[j].pc = "failed")
         => Cardinality(run[j].todo \ {run[j].userId})
              <= (IF run[j].pc = "hGetAll" THEN 1 ELSE 0)]_vars

MutatingOps == {"add", "update", "bulk", "clear"}

\* C12: a /add, /update, /update-bulk or /clear call answers 200 only with
\* its user in the dirty set; and the sRem that follows a committed flush of
\* a user, when it is not rejected, leaves that user outside the dirty set.
C12_DirtySetConvergence ==
    [][/\ \A s \in Slots :
            (req[s].pc # "done" /\ req'[s].pc = "done"
                /\ req'[s].op \in MutatingOps /\ req'[s].status = 200)
            => req'[s].user \in dirtyCarts'
       /\ \A j \in RunIds :
            (run[j].pc = "sRem" /\ run[j].synced = "committed"
                /\ run'[j].pc \in {"hGetAll", "finished"})
            => run[j].userId \notin dirtyCarts']_vars

\* a user marked by a call, flushed and removed: not dirty, with the cart
\* hash mirrored in cart_items
C12_Witness ==
    \E u \in Users :
        /\ u \notin dirtyCarts
        /\ DOMAIN cache[u] # {}
        /\ Durable(u) = parseCart(cache[u])
        /\ JobIdle

\* twice the numeric value of a JSON number
Twice(q) == IF q[1] = "f" THEN 2 * q[2] + 1 ELSE 2 * q[2]
\* the quantity GET /cart reports for product p of hash h (0: not reported)
Reported(h, p) == IF p \in DOMAIN h THEN parseCart(h)[p] ELSE 0

\* C13: GET /cart reports the net quantities.  Every hIncrBy of /add raises
\* the reported quantity of its product by the request's quantity; every
\* hSet of /update makes it the request's quantity; every hDel of /update
\* (quantity <= 0 or null) removes the product; no other product changes;
\* and GET /cart answers the parsed cart hash, in which every quantity is
\* positive.
C13_NetQuantities ==
    [][\A s \in Slots :
         LET r == req[s]
             h == cache[r.user]
             h2 == cache'[r.user] IN
         /\ (r.op \in {"add", "update"} /\ req'[s].pc = "expire" /\ r.pc # "expire")
            => /\ \A p \in Products \ {r.productId} :
                    /\ p \in DOMAIN h2 <=> p \in DOMAIN h
                    /\ Reported(h2, p) = Reported(h, p)
               /\ r.pc = "hIncrBy" =>
                    /\ r.productId \in DOMAIN h2
                    /\ 2 * Reported(h2, r.productId)
                         = 2 * Reported(h, r.productId) + Twice(r.quantity)
               /\ r.pc = "hSet" =>
                    /\ r.productId \in DOMAIN h2
                    /\ 2 * Reported(h2, r.productId) = Twice(r.quantity)
               /\ r.pc = "hDel" => r.productId \notin DOMAIN h2
         /\ (r.op = "get" /\ r.pc # "done" /\ req'[s].pc = "done"
                /\ req'[s].status = 200)
            => /\ req'[s].body = parseCart(h)
               /\ \A p \in DOMAIN req'[s].body : req'[s].body[p] > 0]_vars

\* C14: a GET /cart that finds no cart hash and non-empty cart_items M for
\* its user, with nothing else in flight, answers exactly M and leaves the
\* cart hash holding M, each quantity as its decimal string, with the
\* expiry set to CART_TTL.
C14_RestoreRoundTrip ==
    [][\A s \in Slots :
         LET r == req[s] IN
         (r.op = "get" /\ r.pc = "restore" /\ req'[s].pc = "done"
             /\ req'[s].status = 200)
         => LET M == Durable(r.user) IN
            /\ DOMAIN M # {}
            /\ req'[s].body = M
            /\ cache'[r.user] = [p \in DOMAIN M |-> IntStr(M[p])]
            /\ parseCart(cache'[r.user]) = M
            /\ ttl'[r.user] = CART_TTL]_vars

C14_Witness ==
    \E s \in Slots :
        /\ RepliedTo(s, "get", 200)
        /\ req[s].cart = Durable(req[s].user)
        /\ Cardinality(DOMAIN req[s].cart) = 2
        /\ req[s].body = req[s].cart
        /\ parseCart(cache[req[s].user]) = req[s].body

\* C15: a GET /cart sent after /clear has answered, with no /add, /update
\* or /update-bulk since and with the dirty set drained by completed sync
\* runs, answers an empty cart and finds no cart_items of the user, also
\* when a sync run had read the cart before /clear deleted it.
C15_ClearSupersedesFlush ==
    \A s \in Slots :
        RepliedTo(s, "get", 200) =>
            /\ DOMAIN req[s].body = {}
            /\ DOMAIN Durable(req[s].user) = {}

\* C16: when /clear answers 200, with nothing else in flight, its user has
\* no cart hash (and no expiry), no carts row and no cart_items, and is in
\* the dirty set.
C16_ClearLeavesNothing ==
    \A s \in Slots :
        RepliedTo(s, "clear", 200) =>
            LET u == req[s].user IN
            /\ DOMAIN cache[u] = {}
            /\ ttl[u] = NoExpiry
            /\ ~BagIn(u, carts)
            /\ cart_items[u] = {}
            /\ u \in dirtyCarts

\* a /clear that answered 200 after an earlier request and a sync tick
C16_Witness ==
    \E s \in Slots :
        /\ RepliedTo(s, "clear", 200)
        /\ nreq <= MaxRequests - 2
        /\ nrun < MaxRuns
        /\ req[s].user \in dirtyCarts

\* C17: the commit of a flush leaves the user with a carts row and with
\* exactly the cart the run read as cart_items (old rows of other products
\* are gone); and the cart_items of a user never change in any other way
\* than to such a complete cart or, with the carts row, to nothing: no
\* reader can see the rows deleted and not yet inserted.
C17_FlushReplacesItems ==
    [][/\ \A j \in RunIds :
            (run[j].pc = "tx" /\ run'[j].synced = "committed")
            => /\ BagIn(run[j].userId, carts')
               /\ cart_items'[run[j].userId] = RowsOf(run[j].cart)
       /\ \A u \in Users :
            (cart_items'[u] # cart_items[u]
                \/ CopiesIn(u, carts') # CopiesIn(u, carts))
            => \/ \E j \in RunIds :
                    /\ run[j].pc = "tx" /\ run[j].userId = u
                    /\ DOMAIN run[j].cart # {}
                    /\ BagIn(u, carts') /\ cart_items'[u] = RowsOf(run[j].cart)
               \/ ~BagIn(u, carts') /\ cart_items'[u] = {}]_vars

\* the second run of a behaviour has committed a cart
C17_Witness ==
    \E j \in RunIds :
        /\ run[j].pc = "sRem" /\ run[j].synced = "committed"
        /\ nrun = MaxRuns - 2
        /\ cart_items[run[j].userId] = RowsOf(run[j].cart)
        /\ "A" \notin DOMAIN run[j].cart

\* C18: at most one callback of the sync job is in flight at any time.
C18_RunsNeverOverlap ==
    Cardinality({j \in RunIds : run[j].pc # "idle"}) <= 1

\* C19: when /add, /update, /update-bulk or /clear answers 500, with nothing
\* else in flight, the cart hash of its user is the one the request found.
C19_FailureLeavesCacheUnchanged ==
    \A s \in Slots :
        (req[s].pc = "done" /\ req[s].op \in MutatingOps /\ req[s].status = 500)
        => cache[req[s].user] = req[s].before

\* C20: no step of a GET /cart handler (arrival, hGetAll, SELECT, restore,
\* a rejected call, the response) changes the dirty set, carts, cart_items,
\* orders or order_items; and a GET /cart whose SELECT finds no cart_items
\* after its hGetAll found no hash answers an empty cart and leaves Redis
\* as it is.
C20_GetCartFrame ==
    [][\A s \in Slots :
         /\ ((req[s].op = "get" \/ req'[s].op = "get") /\ req'[s] # req[s])
            => UNCHANGED <<dirtyCarts, carts, cart_items, orders, order_items>>
         /\ (req[s].op = "get" /\ req[s].pc = "select"
                /\ DOMAIN Durable(req[s].user) = {}
                /\ req'[s].pc = "done" /\ req'[s].status = 200)
            => /\ DOMAIN req'[s].body = {}
               /\ UNCHANGED <<cache, ttl>>
               /\ DOMAIN cache'[req[s].user] = {}]_vars

\* a GET /cart has restored a cart and its user is not dirty
C20_Witness ==
    \E s \in Slots :
        /\ RepliedTo(s, "get", 200)
        /\ DOMAIN req[s].cart # {}
        /\ parseCart(cache[req[s].user]) = req[s].cart
        /\ req[s].user \notin dirtyCarts

\* C21: every quantity stored in a cart hash is the decimal string of a
\* positive integer, and every quantity in cart_items is positive.
C21_PositiveIntegerQuantities ==
    \A u \in Users :
        /\ \A p \in DOMAIN cache[u] :
               IsIntStr(cache[u][p]) /\ parseInt(cache[u][p]) > 0
        /\ \A x \in cart_items[u] : x.quantity > 0

\* C22: an /add without productId, or whose quantity is no number or is
\* <= 0, answers 400 on arrival (no store call follows); any other /add
\* goes on to hIncrBy, which raises the quantity of the product by the
\* request's quantity and leaves the other products as they are.
C22_AddItemContract ==
    [][\A s \in Slots :
         LET r == req[s] a == req'[s] IN
         /\ (r.pc = "idle" /\ a.op = "add")
            => IF a.productId = NoProduct \/ ~typeofNumber(a.quantity)
                    \/ ~GtZero(a.quantity)
               THEN a.pc = "done" /\ a.status = 400
               ELSE a.pc = "hIncrBy"
         /\ (r.op = "add" /\ r.pc = "hIncrBy" /\ a # r)
            => LET h == cache[r.user] h2 == cache'[r.user] IN
               /\ a.pc = "expire"
               /\ r.productId \in DOMAIN h2
               /\ 2 * Reported(h2, r.productId)
                    = 2 * Reported(h, r.productId) + Twice(r.quantity)
               /\ \A p \in Products \ {r.productId} :
                    /\ p \in DOMAIN h2 <=> p \in DOMAIN h
                    /\ p \in DOMAIN h => h2[p] = h[p]]_vars

\* a JSON value that is no number: null, a missing member, a string
Malformed(q) == isNull(q) \/ ~typeofNumber(q)

\* C23: an /update without productId or with a malformed quantity, and an
\* /update-bulk with an item of malformed quantity, answer 400 on arrival:
\* no store call of the handler follows.
C23_MalformedRejected ==
    [][\A s \in Slots :
         LET r == req[s] a == req'[s] IN
         /\ (r.pc = "idle" /\ a.op = "update"
                /\ (a.productId = NoProduct \/ Malformed(a.quantity)))
            => a.pc = "done" /\ a.status = 400
         /\ (r.pc = "idle" /\ a.op = "bulk"
                /\ \E i \in DOMAIN a.items : Malformed(a.items[i].quantity))
            => a.pc = "done" /\ a.status = 400]_vars

\* C24: an /update with quantity <= 0 that answers 200, with nothing else
\* in flight, leaves its product absent, every other field of the cart hash
\* as the request found it and its user dirty; sent again, when the product
\* is already absent (and the user therefore already dirty), it changes
\* neither the cart hash nor the dirty set.
C24_RemovalIdempotent ==
    \A s \in Slots :
        (RepliedTo(s, "update", 200) /\ ~jsGtZero(req[s].quantity))
        => LET r == req[s] h == cache[r.user] IN
           /\ r.productId \notin DOMAIN h
           /\ h = Remove(r.before, r.productId)
           /\ r.user \in dirtyCarts
           /\ r.productId \notin DOMAIN r.before => h = r.before

\* the removal of a product that is already absent from a cart that holds
\* another product, as the last of three requests
C24_Witness ==
    \E s \in Slots :
        /\ RepliedTo(s, "update", 200)
        /\ req[s].quantity = Num(0)
        /\ req[s].productId \notin DOMAIN req[s].before
        /\ DOMAIN cache[req[s].user] # {}
        /\ nreq = 0

\* the last item of the list that names product p
LastOf(items, p) ==
    LET is == {i \in DOMAIN items : items[i].productId = p}
        last == CHOOSE i \in is : \A k \in is : k <= i IN
    items[last]

\* C25: when /update-bulk answers 200, with nothing else in flight, the
\* cart hash holds for every listed product whose last listed quantity is
\* > 0 the decimal string of that quantity, holds no field for a listed
\* product whose last listed quantity is <= 0, holds every unlisted field
\* as the request found it, and the user is dirty.
C25_BulkUpdateApplied ==
    \A s \in Slots :
        RepliedTo(s, "bulk", 200) =>
            LET r == req[s] h == cache[r.user] IN
            /\ r.user \in dirtyCarts
            /\ \A p \in Products :
                 IF \E i \in DOMAIN r.items : r.items[i].productId = p
                 THEN LET q == LastOf(r.items, p).quantity IN
                      IF jsGtZero(q)
                      THEN p \in DOMAIN h /\ h[p] = toString(q)
                      ELSE p \notin DOMAIN h
                 ELSE /\ p \in DOMAIN h <=> p \in DOMAIN r.before
                      /\ p \in DOMAIN h => h[p] = r.before[p]

\* product A listed twice, set and then removed, in a cart that holds B
C25_Witness ==
    \E s \in Slots :
        /\ RepliedTo(s, "bulk", 200)
        /\ Len(req[s].items) = 2
        /\ req[s].items[1] = [productId |-> "A", quantity |-> Num(1)]
        /\ req[s].items[2] = [productId |-> "A", quantity |-> Num(0)]
        /\ "A" \in DOMAIN req[s].before
        /\ "B" \in DOMAIN cache[req[s].user]

\* C26: every user has at most one carts row, and the cart_items of a user
\* hold at most one row per product.
C26_DurableRowsUnique ==
    \A u \in Users :
        /\ CopiesIn(u, carts) <= 1
        /\ \A x \in cart_items[u], y \in cart_items[u] :
               x.product_id = y.product_id => x = y

\* a second flush of a user has committed a changed quantity of a product,
\* over the row of the first flush
C26_Witness ==
    \E j \in RunIds :
        /\ run[j].pc = "sRem" /\ run[j].synced = "committed"
        /\ nrun = MaxRuns - 2
        /\ "A" \in DOMAIN run[j].cart /\ run[j].cart["A"] = 2
        /\ cart_items[run[j].userId] = RowsOf(run[j].cart)
        /\ CopiesIn(run[j].userId, carts) = 1

\* the handler of request record r has run its write of the cart hash, which
\* Redis accepted
Written(r) ==
    \/ r.pc \in {"expire", "sAdd"}
    \/ r.pc = "done" /\ r.status = 200

\* C27: when a /add call has run its HINCRBY right after the HINCRBY of
\* another /add call of the user for the same product, and both are still
\* in flight, the field holds the quantity that the first of the two found
\* plus both increments, whichever of the two handlers steps next; and when
\* a /update call writes the field while another /update call for the same
\* product has written it and is still in flight, the field holds the
\* quantity of the call that wrote last (no field for a removal), and keeps
\* it until one of the two has answered.
C27_ConcurrentWrites ==
    [][\A s \in Slots, t \in Slots :
         LET r == req[s] o == req[t] r2 == req'[s] o2 == req'[t]
             p == r2.productId h2 == cache'[r2.user] IN
         (s # t /\ r2.pc # "idle" /\ o2.pc # "idle"
              /\ r2.user = o2.user /\ r2.productId = o2.productId)
         => /\ (r2.op = "add" /\ o2.op = "add" /\ Written(r2) /\ Written(o2)
                  /\ r2.before = hIncrBy(o2.before, p, o2.quantity[2]))
                => /\ p \in DOMAIN h2
                   /\ h2[p] = IntStr(Reported(o2.before, p)
                                     + o2.quantity[2] + r2.quantity[2])
            /\ (r.op = "update" /\ o.op = "update" /\ Written(o) /\ Written(o2)
                  /\ r2.pc = "expire")
                => /\ r.pc = "hSet" => p \in DOMAIN h2 /\ h2[p] = toString(r.quantity)
                   /\ r.pc = "hDel" => p \notin DOMAIN h2
                   /\ r.pc \notin {"hSet", "hDel"}
                        => /\ p \in DOMAIN h2 <=> p \in DOMAIN cache[r.user]
                           /\ p \in DOMAIN h2 => h2[p] = cache[r.user][p]]_vars

\* the second /add call for product A has run its HINCRBY while the first,
\* which arrived at the empty cart, awaits its sAdd
C27_Witness ==
    /\ req[1].op = "add" /\ req[2].op = "add"
    /\ req[1].pc = "sAdd" /\ req[2].pc = "expire"
    /\ req[1].productId = "A" /\ req[2].productId = "A"
    /\ req[1].before = EmptyMap /\ req[2].before = Put(EmptyMap, "A", IntStr(1))
    /\ cache["u1"] = Put(EmptyMap, "A", IntStr(2))

\* the operation of the handler that takes the step, "-" when none does
Stepping(s) ==
    IF req'[s] = req[s] THEN "-"
    ELSE IF req[s].pc = "idle" THEN req'[s].op ELSE req[s].op

\* C28: no step of a /add, /update or /update-bulk handler changes carts,
\* cart_items, orders or order_items; a carts row appears, or the cart_items
\* of an existing cart change, only in a step of the sync job; and a carts
\* row disappears only in a step of a /clear or /checkout handler of that
\* user.
C28_DurableWriters ==
    [][/\ \A s \in Slots :
            Stepping(s) \in {"add", "update", "bulk"}
            => UNCHANGED <<carts, cart_items, orders, order_items>>
       /\ \A u \in Users :
            /\ (BagIn(u, carts')
                   /\ (~BagIn(u, carts) \/ cart_items'[u] # cart_items[u]))
               => /\ run' # run
                  /\ \A s \in Slots : Stepping(s) = "-"
            /\ (BagIn(u, carts) /\ ~BagIn(u, carts'))
               => \E s \in Slots :
                     /\ Stepping(s) \in {"clear", "checkout"}
                     /\ req[s].user = u]_vars

\* a /add, /update or /update-bulk call has answered 200 and the durable
\* cart still holds what an earlier flush wrote, which the cart hash no
\* longer equals
C28_Witness ==
    \E s \in Slots :
        /\ req[s].pc = "done" /\ req[s].status = 200
        /\ req[s].op \in {"add", "update", "bulk"}
        /\ BagIn(req[s].user, carts)
        /\ Durable(req[s].user) # parseCart(cache[req[s].user])
        /\ JobIdle

\* C29: a cart hash without fields is no key (it has no expiry), and a
\* carts row has at least one cart_items row.
C29_NoEmptyCartRecord ==
    \A u \in Users :
        /\ DOMAIN cache[u] = {} => ttl[u] = NoExpiry
        /\ BagIn(u, carts) => cart_items[u] # {}

\* the user has removed the only item of the cart, and the sync run that
\* found the user dirty has skipped the empty cart: no key, no carts row
C29_Witness ==
    \E j \in RunIds :
        /\ run[j].pc = "sRem" /\ run[j].synced = "skipped"
        /\ run[j].userId = "u1"
        /\ cache["u1"] = EmptyMap /\ ttl["u1"] = NoExpiry
        /\ ~BagIn("u1", carts)
        /\ nreq = MaxRequests - 2

\* C30: a GET /cart sent after /checkout has answered 200, with no /add,
\* /update or /update-bulk since and every sync run ended, answers an empty
\* cart, also when a sync run had read the cart before the checkout deleted
\* it.
C30_NoResurrection ==
    \A s \in Slots :
        (RepliedTo(s, "get", 200) /\ OrdersOf(req[s].user) # {})
        => DOMAIN req[s].body = {}

\* C31: a GET /cart that arrives when /update or /update-bulk calls have
\* removed every item of the cart hash (no key dropped by Redis, no /clear,
\* no /checkout), every sync run has ended and the dirty set is drained,
\* answers an empty cart, also when an earlier run had flushed the items.
C31_RemovedItemsStayRemoved ==
    \A s \in Slots :
        (RepliedTo(s, "get", 200) /\ DOMAIN req[s].before = {})
        => DOMAIN req[s].body = {}

\* C32: when the user has only added items, GET /cart reports every product
\* of the flushed cart with at least its flushed quantity, also when Redis
\* dropped the cart hash after the flush and a /add created it anew.
C32_CartSurvivesEviction ==
    \A s \in Slots :
        RepliedTo(s, "get", 200) =>
            LET M == Durable(req[s].user) IN
            \A p \in DOMAIN M :
                p \in DOMAIN req[s].body /\ req[s].body[p] >= M[p]

\* C33: whenever no request of a user is in flight, the user's cart hash,
\* if present, expires CART_TTL seconds after its last write by /add,
\* /update, /update-bulk or the restore of GET /cart: none of them leaves a
\* cart hash without an expiry.
C33_SlidingExpiration ==
    \A u \in Users :
        (~InFlight(u) /\ DOMAIN cache[u] # {}) => ttl[u] = CART_TTL

\* the users a step works for: the user of the handler that takes it, or
\* the userId of the iteration of the sync loop that takes it
ActingUsers ==
    {req'[s].user : s \in {t \in Slots : req'[t] # req[t] /\ req[t].pc = "idle"}}
    \cup {req[s].user : s \in {t \in Slots : req'[t] # req[t] /\ req[t].pc # "idle"}}
    \cup {run'[j].userId : j \in {k \in RunIds : run'[k] # run[k] /\ run[k].pc = "hGetAll"}}
    \cup {run[j].userId : j \in {k \in RunIds : run'[k] # run[k] /\ run[k].pc \in {"tx", "sRem"}}}

\* C34: a step of a handler or of the sync loop changes, of every user it
\* does not work for, neither the cart hash and its expiry, nor the carts
\* row and the cart_items, nor the orders and their items, nor the
\* membership in the dirty set.
C34_UserIsolation ==
    [][\A v \in Users \ ActingUsers :
         /\ cache'[v] = cache[v] /\ ttl'[v] = ttl[v]
         /\ CopiesIn(v, carts') = CopiesIn(v, carts)
         /\ cart_items'[v] = cart_items[v]
         /\ {o \in orders' : o.user_id = v} = OrdersOf(v)
         /\ \A o \in OrdersOf(v) :
                {i \in order_items' : i.order_id = o.id} = ItemsOf(o.id)
         /\ (v \in dirtyCarts') <=> (v \in dirtyCarts)]_vars

\* a sync run has flushed one user and removed that user from the dirty
\* set, and the other user, whose cart it has not flushed yet, is still in
\* the dirty set with the cart hash untouched
C34_Witness ==
    \E j \in RunIds, u \in Users, v \in Users :
        /\ u # v
        /\ run[j].pc = "hGetAll" /\ run[j].todo = {v}
        /\ u \notin dirtyCarts /\ v \in dirtyCarts
        /\ BagIn(u, carts) /\ ~BagIn(v, carts)
        /\ DOMAIN cache[v] # {} /\ ttl[v] = CART_TTL

====
